---- MODULE Spec2Model ----
(***************************************************************************)
(* chartjs-mcp-server: the generateChart tool (validateChartConfig, the    *)
(* tool handler and its response shaping) and the streamable-http session  *)
(* registry of startHttpServer.                                            *)
(*                                                                         *)
(* JavaScript values are records tagged by k; a string is a sequence of    *)
(* atomic text tokens, so that JSON text can be built and parsed.          *)
(***************************************************************************)
EXTENDS Integers, Sequences, FiniteSets, TLC

VARIABLES
    \* ---- generateChart tool handler (src/src/index.ts:85-162)
    tpc,               \* position of the handler: idle / rendering / returned
    chartConfig,       \* the argument as the caller supplied it
    outputFormat,      \* "png" | "html"
    saveToFile,        \* BOOLEAN
    parsedChartConfig, \* local of the handler after validation
    adapterCalls,      \* arguments of every generateChart(...) call of this invocation
    result,            \* what the Chart Render Adapter returned
    response,          \* what the handler returned
    \* ---- startHttpServer (src/src/index.ts:177-256)
    transports,        \* the Map of line 179: its entries [key, value] in insertion order
    tr,                \* every StreamableHTTPServerTransport created, in creation order
    reqs,              \* every request to /mcp received, with its handler's position
    nextUuid,          \* the next value randomUUID() returns
    serverTransport,   \* the transport the shared McpServer was last connected to
    proc,              \* the process: running / closing (in the SIGINT handler) /
                       \* exited (status 0) / crashed (status 1)
    iterPos            \* the key the SIGINT handler's iterator visited last

toolVars == <<tpc, chartConfig, outputFormat, saveToFile, parsedChartConfig,
              adapterCalls, result, response>>

httpVars == <<transports, tr, reqs, nextUuid, serverTransport, proc, iterPos>>

vars == <<toolVars, httpVars>>

(***************************************************************************)
(* Bounds of the model                                                     *)
(***************************************************************************)
MaxDatasets == 2
MaxRequests == 3
MaxTransports == 2

(***************************************************************************)
(* JavaScript values                                                       *)
(***************************************************************************)
Undefined == [k |-> "undefined"]
Null      == [k |-> "null"]
Bool(b)   == [k |-> "boolean", b |-> b]
Num(n)    == [k |-> "number", n |-> n]
Str(s)    == [k |-> "string", s |-> s]
Arr(a)    == [k |-> "array", a |-> a]
Obj(f)    == [k |-> "object", f |-> f]

\* marks a property that is not written into an object literal
Absent == [k |-> "absent"]

NoFields == [n \in {} |-> Undefined]

\* typeof v
TypeOf(v) ==
    CASE v.k = "undefined" -> "undefined"
      [] v.k = "null"      -> "object"
      [] v.k = "boolean"   -> "boolean"
      [] v.k = "number"    -> "number"
      [] v.k = "string"    -> "string"
      [] v.k = "array"     -> "object"
      [] v.k = "object"    -> "object"

\* ToBoolean(v), as used by ! and by if (...)
Truthy(v) ==
    CASE v.k = "undefined" -> FALSE
      [] v.k = "null"      -> FALSE
      [] v.k = "boolean"   -> v.b
      [] v.k = "number"    -> v.n # 0
      [] v.k = "string"    -> v.s # <<>>
      [] v.k = "array"     -> TRUE
      [] v.k = "object"    -> TRUE

\* v.name for a value that is not null or undefined
Get(v, name) ==
    CASE v.k = "object" -> IF name \in DOMAIN v.f THEN v.f[name] ELSE Undefined
      [] v.k = "array"  -> IF name = "length" THEN Num(Len(v.a)) ELSE Undefined
      [] OTHER          -> Undefined

IsArray(v) == v.k = "array"

(***************************************************************************)
(* Text: a string is a sequence of tokens.  JSONText(v) is the JSON text   *)
(* of v (JSON.stringify without whitespace); JSON.parse is its inverse on  *)
(* the values of the model and fails on every other text.                  *)
(***************************************************************************)
RECURSIVE Join(_, _)
\* parts.join(sep) for a sequence of strings
Join(parts, sep) ==
    IF parts = <<>> THEN <<>>
    ELSE IF Len(parts) = 1 THEN parts[1]
    ELSE parts[1] \o sep \o Join(Tail(parts), sep)

\* the characters of a string inside a JSON string literal
Escape(s) == [i \in 1..Len(s) |-> IF s[i] = "\"" THEN "\\\"" ELSE s[i]]

KeyOrder == <<"type", "data", "datasets", "labels", "label">>

NumText(n) == <<ToString(n)>>

RECURSIVE JSONText(_)
JSONText(v) ==
    CASE v.k = "null"    -> <<"null">>
      [] v.k = "boolean" -> IF v.b THEN <<"true">> ELSE <<"false">>
      [] v.k = "number"  -> NumText(v.n)
      [] v.k = "string"  -> <<"\"">> \o Escape(v.s) \o <<"\"">>
      [] v.k = "array"   ->
            <<"[">> \o Join([i \in 1..Len(v.a) |-> JSONText(v.a[i])], <<",">>) \o <<"]">>
      [] v.k = "object"  ->
            LET keys == SelectSeq(KeyOrder, LAMBDA n : n \in DOMAIN v.f)
                member(n) == <<"\"", n, "\"", ":">> \o JSONText(v.f[n])
            IN  <<"{">> \o Join([i \in 1..Len(keys) |-> member(keys[i])], <<",">>) \o <<"}">>

(***************************************************************************)
(* The inputs of the model                                                 *)
(***************************************************************************)
\* const validTypes (index.ts:50)
validTypes == <<"bar", "line", "scatter", "bubble", "pie", "doughnut", "polarArea", "radar">>

Range(f) == {f[i] : i \in DOMAIN f}

RECURSIVE SeqsUpTo(_, _)
SeqsUpTo(S, n) ==
    IF n = 0 THEN {<<>>}
    ELSE LET shorter == SeqsUpTo(S, n - 1)
         IN  shorter \cup {Append(q, e) : q \in {r \in shorter : Len(r) = n - 1}, e \in S}

\* an object literal of the present properties among the given ones
ObjOf(pairs) ==
    Obj([n \in {p[1] : p \in {q \in pairs : q[2] # Absent}} |->
            (CHOOSE p \in pairs : p[1] = n)[2]])

DatasetElems == {Obj(NoFields), Num(1)}

DatasetsValues ==
    {Absent, Null, Num(0), Str(<<"x">>), Obj(NoFields)}
        \cup {Arr(a) : a \in SeqsUpTo(DatasetElems, MaxDatasets)}

DataValues ==
    {Absent, Null, Num(1), Str(<<"x">>), Arr(<<>>)}
        \cup {ObjOf({<<"datasets", d>>}) : d \in DatasetsValues}

TypeValues ==
    {Absent, Null, Num(1), Str(<<>>), Str(<<"flowchart">>)}
        \cup {Str(<<t>>) : t \in Range(validTypes)}

ConfigObjects == {ObjOf({<<"type", t>>, <<"data", d>>}) : t \in TypeValues, d \in DataValues}

\* the values a JSON text of the model can denote
JsonValues ==
    {Null, Bool(FALSE), Bool(TRUE), Num(0), Num(1), Str(<<"bar">>), Arr(<<>>), Arr(<<Num(1)>>)}
        \cup ConfigObjects

\* a JSON string literal whose content is itself the JSON text of a configuration
QuotedConfigs == {Str(JSONText(c)) : c \in {o \in ConfigObjects : DOMAIN o.f = {"type"}}}

\* texts that are not JSON
Malformed == {<<>>, <<"{">>, <<"bar">>, <<"{", "\"", "type", "\"", "}">>}

TextInputs ==
    {Str(JSONText(v)) : v \in JsonValues \cup QuotedConfigs} \cup {Str(s) : s \in Malformed}

\* chartConfig: z.any()
ChartConfigInputs == {Undefined} \cup JsonValues \cup TextInputs

\* the JSON text of every value a text of the model can denote
JsonTexts == [v \in JsonValues \cup QuotedConfigs |-> JSONText(v)]

\* JSON.parse(text): [ok |-> TRUE, value |-> v] or [ok |-> FALSE] for a SyntaxError
JSONParse(text) ==
    IF \E v \in DOMAIN JsonTexts : JsonTexts[v] = text
    THEN [ok |-> TRUE, value |-> CHOOSE v \in DOMAIN JsonTexts : JsonTexts[v] = text]
    ELSE [ok |-> FALSE]

(***************************************************************************)
(* validateChartConfig (index.ts:33-71).  A throw is the record            *)
(* [ok |-> FALSE, message |-> ...]; a return is [ok |-> TRUE, config |-> c] *)
(***************************************************************************)
Throw(message) == [ok |-> FALSE, message |-> message]

MsgNotJson     == <<"Chart configuration string is not valid JSON">>
MsgNotObject   == <<"Chart configuration must be an object">>
MsgInvalidType == <<"Invalid chart type. Must be one of: ">>
                      \o Join([i \in 1..Len(validTypes) |-> <<validTypes[i]>>], <<", ">>)
MsgNoData      == <<"Chart configuration must include a data object">>
MsgNoDatasets  == <<"Chart data must include a datasets array">>
MsgEmpty       == <<"Chart data must include at least one dataset">>

\* mutant: any string passes for a chart type
IncludesAnyString(list, v) == v.k = "string"

\* validTypes.includes(v)
Includes(list, v) == v.k = "string" /\ \E i \in 1..Len(list) : v.s = <<list[i]>>

\* mutant: the data object is checked before the chart type
CheckConfigDataFirst(config) ==
    IF ~Truthy(config) \/ TypeOf(config) # "object" THEN Throw(MsgNotObject)
    ELSE IF ~Truthy(Get(config, "data")) \/ TypeOf(Get(config, "data")) # "object"
        THEN Throw(MsgNoData)
    ELSE IF ~Truthy(Get(config, "type")) \/ ~Includes(validTypes, Get(config, "type"))
        THEN Throw(MsgInvalidType)
    ELSE IF ~Truthy(Get(Get(config, "data"), "datasets"))
               \/ ~IsArray(Get(Get(config, "data"), "datasets"))
        THEN Throw(MsgNoDatasets)
    ELSE IF Get(Get(Get(config, "data"), "datasets"), "length") = Num(0)
        THEN Throw(MsgEmpty)
    ELSE [ok |-> TRUE, config |-> config]

\* lines 44-70: the checks on the (parsed) config
CheckConfig(config) ==
    IF ~Truthy(config) \/ TypeOf(config) # "object" THEN Throw(MsgNotObject)
    ELSE IF ~Truthy(Get(config, "type")) \/ ~Includes(validTypes, Get(config, "type"))
        THEN Throw(MsgInvalidType)
    ELSE IF ~Truthy(Get(config, "data")) \/ TypeOf(Get(config, "data")) # "object"
        THEN Throw(MsgNoData)
    ELSE IF ~Truthy(Get(Get(config, "data"), "datasets"))
               \/ ~IsArray(Get(Get(config, "data"), "datasets"))
        THEN Throw(MsgNoDatasets)
    ELSE IF Get(Get(Get(config, "data"), "datasets"), "length") = Num(0)
        THEN Throw(MsgEmpty)
    ELSE [ok |-> TRUE, config |-> config]

validateChartConfig(input) ==
    IF TypeOf(input) = "string"
    THEN LET parsed == JSONParse(input.s)
         IN  IF ~parsed.ok THEN Throw(MsgNotJson) ELSE CheckConfig(parsed.value)
    ELSE CheckConfig(input)

(***************************************************************************)
(* Buffer.toString('base64') (index.ts:129): RFC 4648 with padding         *)
(***************************************************************************)
Base64Alphabet ==
    <<"A","B","C","D","E","F","G","H","I","J","K","L","M","N","O","P",
      "Q","R","S","T","U","V","W","X","Y","Z","a","b","c","d","e","f",
      "g","h","i","j","k","l","m","n","o","p","q","r","s","t","u","v",
      "w","x","y","z","0","1","2","3","4","5","6","7","8","9","+","/">>

B64(n) == Base64Alphabet[n + 1]

RECURSIVE Base64(_)
Base64(bytes) ==
    IF Len(bytes) = 0 THEN <<>>
    ELSE IF Len(bytes) = 1 THEN
        <<B64(bytes[1] \div 4), B64((bytes[1] % 4) * 16), "=", "=">>
    ELSE IF Len(bytes) = 2 THEN
        <<B64(bytes[1] \div 4), B64((bytes[1] % 4) * 16 + bytes[2] \div 16),
          B64((bytes[2] % 16) * 4), "=">>
    ELSE
        <<B64(bytes[1] \div 4), B64((bytes[1] % 4) * 16 + bytes[2] \div 16),
          B64((bytes[2] % 16) * 4 + bytes[3] \div 64), B64(bytes[3] % 64)>>
            \o Base64(SubSeq(bytes, 4, Len(bytes)))

(***************************************************************************)
(* Chart Render Adapter, generateChart of ./chart-generator.js             *)
(* (imported at index.ts:9, called at index.ts:103).  Its result envelope  *)
(* has the fields the handler reads: success, htmlSnippet, buffer,         *)
(* pngFilePath, message.                                                   *)
(***************************************************************************)
\* element identifiers the adapter generates for a markup fragment
MarkupIds == {1, 2}

Markup(config, id) ==
    <<"<div id=\"chart-container-", ToString(id), "\">">> \o JSONText(config) \o <<"</div>">>

\* raster images: the PNG signature and what follows it, cut at every length mod 3
PngBuffers == {<<137, 80, 78, 71>>, <<137, 80, 78, 71, 13>>, <<137, 80, 78, 71, 13, 255>>}

PngPaths == {<<"/tmp/", "chart-1", ".png">>, <<"chart.png">>}

FailureMessages == {<<"Error generating chart: ", "scatter data must be {x, y}">>,
                    <<"Error generating chart: ", "canvas">>}

Failures == {[success |-> FALSE, error |-> m[2], message |-> m] : m \in FailureMessages}

\* the results generateChart(config, format, saveToFile) can resolve to
GenerateChartResults(config, format, save) ==
    Failures \cup
    (IF format = "html"
     THEN {[success |-> TRUE, htmlSnippet |-> Markup(config, id),
            message |-> <<"HTML chart generated">>] : id \in MarkupIds}
     ELSE IF save
     THEN {[success |-> TRUE, pngFilePath |-> p, message |-> <<"PNG chart saved">>] :
              p \in PngPaths}
     ELSE {[success |-> TRUE, buffer |-> b, message |-> <<"PNG chart generated">>] :
              b \in PngBuffers})

(***************************************************************************)
(* The generateChart tool handler (index.ts:85-162)                        *)
(***************************************************************************)
TextBlock(text) == [type |-> "text", text |-> text]

\* mutant: no try/catch around the validator, its error leaves the handler
OnValidationUncaught(v) ==
    IF ~v.ok
    THEN [returned |-> FALSE, fault |-> TRUE]
    ELSE [returned |-> FALSE, fault |-> FALSE, config |-> v.config]

\* lines 88-101: try { validateChartConfig } catch { return the error as content }
\* [returned |-> TRUE, content] when the handler returns here, else the parsed config
OnValidation(v) ==
    IF ~v.ok
    THEN [returned |-> TRUE, fault |-> FALSE, content |-> <<TextBlock(<<"Error: ">> \o v.message)>>]
    ELSE [returned |-> FALSE, fault |-> FALSE, config |-> v.config]

\* mutant: the adapter is given the caller's chartConfig instead of the parsed one
AdapterArgsUnparsed(parsed, raw, format, save) ==
    [config |-> raw, format |-> format, saveToFile |-> save]

\* the argument list of the call at line 103
AdapterArgs(parsed, raw, format, save) ==
    [config |-> parsed, format |-> format, saveToFile |-> save]

\* a string property of the result that is present and not empty
TruthyText(r, name) == name \in DOMAIN r /\ r[name] # <<>>

Footer ==
    <<"\n\nPlease ensure your configuration follows the Chart.js v4 schema. Common issues:\n- Check data format matches chart type (e.g., scatter charts need {x, y} objects)\n- Verify all required dataset properties are provided\n- Ensure chart type is supported: ">>
        \o Join([i \in 1..Len(validTypes) |-> <<validTypes[i]>>], <<", ">>)

\* mutant: a failure is returned without the troubleshooting footer
ShapeResultNoFooter(r) ==
    IF r.success
    THEN IF TruthyText(r, "htmlSnippet")
         THEN <<[type |-> "text", text |-> r.htmlSnippet, mimeType |-> "text/html",
                 _meta |-> [mimeType |-> "text/html"]]>>
         ELSE IF "buffer" \in DOMAIN r
         THEN <<[type |-> "image", data |-> Base64(r.buffer), mimeType |-> "image/png"]>>
         ELSE IF TruthyText(r, "pngFilePath")
         THEN <<TextBlock(r.pngFilePath)>>
         ELSE <<TextBlock(r.message)>>
    ELSE <<TextBlock(r.message)>>

\* mutant: the markup is returned as plain text, without its media type
ShapeResultUntagged(r) ==
    IF r.success
    THEN IF TruthyText(r, "htmlSnippet")
         THEN <<TextBlock(r.htmlSnippet)>>
         ELSE IF "buffer" \in DOMAIN r
         THEN <<[type |-> "image", data |-> Base64(r.buffer), mimeType |-> "image/png"]>>
         ELSE IF TruthyText(r, "pngFilePath")
         THEN <<TextBlock(r.pngFilePath)>>
         ELSE <<TextBlock(r.message)>>
    ELSE <<TextBlock(r.message \o Footer)>>

\* lines 105-161: the content blocks for a result of the adapter
ShapeResult(r) ==
    IF r.success
    THEN IF TruthyText(r, "htmlSnippet")
         THEN <<[type |-> "text", text |-> r.htmlSnippet, mimeType |-> "text/html",
                 _meta |-> [mimeType |-> "text/html"]]>>
         ELSE IF "buffer" \in DOMAIN r
         THEN <<[type |-> "image", data |-> Base64(r.buffer), mimeType |-> "image/png"]>>
         ELSE IF TruthyText(r, "pngFilePath")
         THEN <<TextBlock(r.pngFilePath)>>
         ELSE <<TextBlock(r.message)>>
    ELSE <<TextBlock(r.message \o Footer)>>

OutputFormats == {"png", "html"}

NoValue == [k |-> "none"]

ToolInit ==
    /\ tpc = "idle"
    /\ chartConfig = NoValue
    /\ outputFormat = "png"
    /\ saveToFile = FALSE
    /\ parsedChartConfig = NoValue
    /\ adapterCalls = <<>>
    /\ result = NoValue
    /\ response = NoValue

\* the client calls the tool: lines 85-103 up to the await
Call(c, f, s) ==
    /\ tpc = "idle"
    /\ chartConfig' = c
    /\ outputFormat' = f
    /\ saveToFile' = s
    /\ LET o == OnValidation(validateChartConfig(c))
       IN  IF o.fault
           THEN /\ tpc' = "faulted"
                /\ UNCHANGED <<parsedChartConfig, adapterCalls, response>>
           ELSE IF o.returned
           THEN /\ tpc' = "returned"
                /\ response' = [content |-> o.content]
                /\ UNCHANGED <<parsedChartConfig, adapterCalls>>
           ELSE /\ tpc' = "rendering"
                /\ parsedChartConfig' = o.config
                /\ adapterCalls' = Append(adapterCalls, AdapterArgs(o.config, c, f, s))
                /\ UNCHANGED response
    /\ UNCHANGED result
    /\ UNCHANGED httpVars

\* the adapter's promise resolves: lines 103-161
RenderResolve ==
    /\ tpc = "rendering"
    /\ \E r \in GenerateChartResults(adapterCalls[Len(adapterCalls)].config,
                                     adapterCalls[Len(adapterCalls)].format,
                                     adapterCalls[Len(adapterCalls)].saveToFile) :
          /\ result' = r
          /\ response' = [content |-> ShapeResult(r)]
    /\ tpc' = "returned"
    /\ UNCHANGED <<chartConfig, outputFormat, saveToFile, parsedChartConfig, adapterCalls>>
    /\ UNCHANGED httpVars

\* the response is sent; the endpoint keeps nothing of the invocation
Respond ==
    /\ tpc = "returned"
    /\ tpc' = "idle"
    /\ chartConfig' = NoValue
    /\ outputFormat' = "png"
    /\ saveToFile' = FALSE
    /\ parsedChartConfig' = NoValue
    /\ adapterCalls' = <<>>
    /\ result' = NoValue
    /\ response' = NoValue
    /\ UNCHANGED httpVars

ToolNext ==
    \/ \E c \in ChartConfigInputs, f \in OutputFormats, s \in BOOLEAN : Call(c, f, s)
    \/ RenderResolve
    \/ Respond

(***************************************************************************)
(* startHttpServer (index.ts:177-256): the session registry                *)
(*                                                                         *)
(* A session id is a number: the ids randomUUID() returns are 1, 2, ...    *)
(* in the order of the calls, so every call returns a fresh one.           *)
(***************************************************************************)
\* req.headers['mcp-session-id'] of a request without the header, and the sessionId
\* of a transport before its initialization
UndefinedId == -2
\* the value of a header sent with an empty value
EmptyId == -1
\* a session id no transport was ever given
UnknownId == 0

\* ToBoolean of a string | undefined
TruthyId(h) == h # UndefinedId /\ h # EmptyId

Methods == {"POST", "GET", "DELETE"}

\* Map.prototype.has / get / set / delete on the insertion-ordered entries
MapHas(m, key) == \E i \in DOMAIN m : m[i].key = key
MapGet(m, key) == m[CHOOSE i \in DOMAIN m : m[i].key = key].value
MapSet(m, key, value) ==
    IF MapHas(m, key)
    THEN [i \in DOMAIN m |-> IF m[i].key = key THEN [key |-> key, value |-> value] ELSE m[i]]
    ELSE Append(m, [key |-> key, value |-> value])
MapDelete(m, key) == SelectSeq(m, LAMBDA e : e.key # key)
MapKeys(m) == {m[i].key : i \in DOMAIN m}
MapValues(m) == {m[i].value : i \in DOMAIN m}

\* mutant: the generator returns the id it returned last
randomUUIDRepeated == IF nextUuid > 1 THEN nextUuid - 1 ELSE nextUuid

\* sessionIdGenerator: () => randomUUID() (line 196)
randomUUID == nextUuid

\* onsessioninitialized (lines 197-200)
onsessioninitialized(m, newSessionId, httpTransport) == MapSet(m, newSessionId, httpTransport)

\* mutant: the close callback leaves the registry alone
oncloseKeeps(m, sessionId) == m

\* httpTransport.onclose (lines 204-208)
onclose(m, sessionId) == IF TruthyId(sessionId) THEN MapDelete(m, sessionId) ELSE m

\* mutant: a POST is taken for an initialization whatever its session header
RouteAnyPost(m, sessionId, method) ==
    IF TruthyId(sessionId) /\ MapHas(m, sessionId) THEN "reuse"
    ELSE IF method = "POST" THEN "create"
    ELSE "reject"

\* mutant: a known session is not looked up, every POST gets a new transport
RouteNoReuse(m, sessionId, method) ==
    IF method = "POST" THEN "create"
    ELSE IF TruthyId(sessionId) /\ MapHas(m, sessionId) THEN "reuse"
    ELSE "reject"

\* the branch the handler takes (lines 190, 193, 212)
Route(m, sessionId, method) ==
    IF TruthyId(sessionId) /\ MapHas(m, sessionId) THEN "reuse"
    ELSE IF ~TruthyId(sessionId) /\ method = "POST" THEN "create"
    ELSE "reject"

\* new StreamableHTTPServerTransport({...}) (lines 195-201)
NewTransport == [sessionId |-> UndefinedId, initialized |-> FALSE, closes |-> 0,
                 requests |-> {}]

\* the transport has reported its closure (closes counts the calls of its onclose)
IsClosed(t) == tr[t].closes > 0

NoTransport == 0
NoStatus == 0

\* the answer of lines 214-222
BadRequest == [status |-> 400, code |-> -32000, by |-> "boundary"]

\* the process is gone: process.exit(0) of line 254, or the exit with status 1 that an
\* unhandled rejection causes
Terminated == proc \in {"exited", "crashed"}

HttpInit ==
    /\ transports = <<>>
    /\ tr = <<>>
    /\ reqs = <<>>
    /\ nextUuid = 1
    /\ serverTransport = NoTransport
    /\ proc = "running"
    /\ iterPos = 0

\* the session headers a client can send: none, an empty one, an id no session has,
\* or an id the server has handed out (current or stale)
HeaderValues == {UndefinedId, EmptyId, UnknownId} \cup (1..(nextUuid - 1))

\* mutant: the transport takes a second initialization request as it took the first
AlreadyInitializedIgnored(t) == FALSE

\* the transport was initialized before: it answers another initialization request
\* with 400 and keeps its session id
AlreadyInitialized(t) == tr[t].initialized

\* a request to /mcp arrives: lines 181-211 up to the first await, or to the return
\* of line 223; init says that its body is an initialization request (a POST's only)
Arrive(method, header, init) ==
    /\ ~Terminated
    /\ Len(reqs) < MaxRequests
    /\ init => method = "POST"
    /\ Route(transports, header, method) = "create" => Len(tr) < MaxTransports
    /\ LET branch == Route(transports, header, method)
           r == [method |-> method, header |-> header, init |-> init]
       IN  CASE branch = "reuse" ->
                  /\ reqs' = Append(reqs, r @@ [pc |-> "handling",
                                 httpTransport |-> MapGet(transports, header),
                                 status |-> NoStatus, code |-> 0, by |-> "none"])
                  /\ UNCHANGED <<tr, serverTransport>>
             [] branch = "create" ->
                  /\ tr' = Append(tr, NewTransport)
                  /\ serverTransport' = Len(tr) + 1
                  /\ reqs' = Append(reqs, r @@ [pc |-> "connecting",
                                 httpTransport |-> Len(tr) + 1,
                                 status |-> NoStatus, code |-> 0, by |-> "none"])
             [] branch = "reject" ->
                  /\ reqs' = Append(reqs, r @@ [pc |-> "done",
                                 httpTransport |-> NoTransport] @@ BadRequest)
                  /\ UNCHANGED <<tr, serverTransport>>
    /\ UNCHANGED <<transports, nextUuid, proc, iterPos>>
    /\ UNCHANGED toolVars

\* await server.connect(httpTransport) resumes (line 211); line 227 calls handleRequest
Connected(r) ==
    /\ ~Terminated
    /\ r \in DOMAIN reqs
    /\ reqs[r].pc = "connecting"
    /\ reqs' = [reqs EXCEPT ![r].pc = "handling"]
    /\ UNCHANGED <<transports, tr, nextUuid, serverTransport, proc, iterPos>>
    /\ UNCHANGED toolVars

\* httpTransport.handleRequest(req, res) (line 227), as the transport of the protocol
\* SDK handles a request: an initialization request gives the transport its session id
\* and calls onsessioninitialized; any other request needs an initialized transport
\* and its session id; a DELETE closes the transport, which calls onclose
HandleRequest(r) ==
    /\ ~Terminated
    /\ r \in DOMAIN reqs
    /\ reqs[r].pc = "handling"
    /\ LET t == reqs[r].httpTransport
           q == reqs[r]
           answer(status, code) ==
               [reqs EXCEPT ![r].pc = "done", ![r].status = status, ![r].code = code,
                            ![r].by = "transport"]
           received == [tr EXCEPT ![t].requests = @ \cup {r}]
       IN  IF q.method = "POST" /\ q.init
           THEN IF AlreadyInitialized(t)
                THEN /\ reqs' = answer(400, -32600)
                     /\ tr' = received
                     /\ UNCHANGED <<transports, nextUuid>>
                ELSE /\ reqs' = answer(200, 0)
                     /\ tr' = [received EXCEPT ![t].sessionId = randomUUID,
                                               ![t].initialized = TRUE]
                     /\ transports' = onsessioninitialized(transports, randomUUID, t)
                     /\ nextUuid' = nextUuid + 1
           ELSE IF ~tr[t].initialized \/ ~TruthyId(q.header)
                THEN /\ reqs' = answer(400, -32000)
                     /\ tr' = received
                     /\ UNCHANGED <<transports, nextUuid>>
           ELSE IF q.header # tr[t].sessionId
                THEN /\ reqs' = answer(404, -32001)
                     /\ tr' = received
                     /\ UNCHANGED <<transports, nextUuid>>
           ELSE IF q.method = "DELETE"
                THEN /\ reqs' = answer(200, 0)
                     /\ tr' = [received EXCEPT ![t].closes = @ + 1]
                     /\ transports' = onclose(transports, tr[t].sessionId)
                     /\ UNCHANGED nextUuid
           ELSE /\ reqs' = answer(200, 0)
                /\ tr' = received
                /\ UNCHANGED <<transports, nextUuid>>
    /\ UNCHANGED <<serverTransport, proc, iterPos>>
    /\ UNCHANGED toolVars

\* a transport reports its closure (the client went away): its onclose runs
TransportClosed(t) ==
    /\ ~Terminated
    /\ t \in DOMAIN tr
    /\ ~IsClosed(t)
    /\ tr' = [tr EXCEPT ![t].closes = @ + 1]
    /\ transports' = onclose(transports, tr[t].sessionId)
    /\ UNCHANGED <<reqs, nextUuid, serverTransport, proc, iterPos>>
    /\ UNCHANGED toolVars

\* what awaiting transport.close() (line 251) can give: the promise resolves, or it
\* rejects; the handler has no try/catch around the await
CloseOutcomes == {"resolved", "rejected"}

\* one turn of the loop of lines 250-252, then lines 253-254 when it is over: the
\* iterator of transports.values() yields the first entry inserted after the one it
\* yielded last (keys are handed out in increasing order); close() runs onclose.
\* A rejected close() throws out of the handler: lines 253-254 are not reached, and
\* the unhandled rejection ends the process with status 1
ShutdownStep(outcome) ==
    LET rest == SelectSeq(transports, LAMBDA e : e.key > iterPos)
    IN  IF rest = <<>>
        THEN /\ outcome = "resolved"
             /\ proc' = "exited"
             /\ UNCHANGED <<transports, tr, iterPos>>
        ELSE IF outcome = "rejected"
        THEN /\ proc' = "crashed"
             /\ UNCHANGED <<transports, tr, iterPos>>
        ELSE /\ proc' = "closing"
             /\ iterPos' = rest[1].key
             /\ tr' = [tr EXCEPT ![rest[1].value].closes = @ + 1]
             /\ transports' = onclose(transports, tr[rest[1].value].sessionId)

\* SIGINT is delivered (line 248)
Sigint(outcome) ==
    /\ proc = "running"
    /\ ShutdownStep(outcome)
    /\ UNCHANGED <<reqs, nextUuid, serverTransport>>
    /\ UNCHANGED toolVars

\* await transport.close() resumes (line 251)
SigintResume(outcome) ==
    /\ proc = "closing"
    /\ ShutdownStep(outcome)
    /\ UNCHANGED <<reqs, nextUuid, serverTransport>>
    /\ UNCHANGED toolVars

Next ==
    \/ \E method \in Methods, header \in HeaderValues, init \in BOOLEAN :
          Arrive(method, header, init)
    \/ \E r \in 1..MaxRequests : Connected(r)
    \/ \E r \in 1..MaxRequests : HandleRequest(r)
    \/ \E t \in 1..MaxTransports : TransportClosed(t)
    \/ \E outcome \in CloseOutcomes : Sigint(outcome)
    \/ \E outcome \in CloseOutcomes : SigintResume(outcome)

Init == ToolInit /\ HttpInit

Spec == Init /\ [][Next]_vars

ToolSpec == Init /\ [][ToolNext]_vars

(***************************************************************************)
(* Properties of the generateChart tool                                    *)
(***************************************************************************)
\* the eight chart kinds the specification enumerates
ChartKinds == {"bar", "line", "scatter", "bubble", "pie", "doughnut", "polarArea", "radar"}

\* the value validation is about: the input, parsed when it is text
ParsedInput(c) ==
    IF c.k = "string"
    THEN IF JSONParse(c.s).ok THEN JSONParse(c.s).value ELSE NoValue
    ELSE c

\* an object in the sense of the data model: a mapping, not a sequence
IsMapping(p) == p.k = "object"

\* what rules 2 and 4 take for an object: a mapping, and with arraysToo also an array
\* (JavaScript's typeof gives "object" for both)
IsObj(p, arraysToo) == p.k = "object" \/ (arraysToo /\ p.k = "array")

Has(p, n) == p.k = "object" /\ n \in DOMAIN p.f

TypeOk(p) ==
    /\ Has(p, "type")
    /\ p.f.type.k = "string"
    /\ \E t \in ChartKinds : p.f.type.s = <<t>>

\* the number of the first rule of the ordered list the input fails, 0 when none
FirstFailingRule(c, arraysToo) ==
    IF c.k = "string" /\ ~JSONParse(c.s).ok THEN 1
    ELSE LET p == ParsedInput(c)
         IN  IF ~IsObj(p, arraysToo) THEN 2
             ELSE IF ~TypeOk(p) THEN 3
             ELSE IF ~(Has(p, "data") /\ IsObj(p.f.data, arraysToo)) THEN 4
             ELSE IF ~(Has(p.f.data, "datasets") /\ p.f.data.f.datasets.k = "array") THEN 5
             ELSE IF p.f.data.f.datasets.a = <<>> THEN 6
             ELSE 0

RuleMessages ==
    <<MsgNotJson, MsgNotObject, MsgInvalidType, MsgNoData, MsgNoDatasets, MsgEmpty>>

ErrorResponse(k) == [content |-> <<TextBlock(<<"Error: ">> \o RuleMessages[k])>>]

ReportsFirstRule(arraysToo) ==
    tpc # "idle" /\ FirstFailingRule(chartConfig, arraysToo) # 0
        => /\ tpc = "returned"
           /\ response = ErrorResponse(FirstFailingRule(chartConfig, arraysToo))

\* C5 (as amended): an input that fails validation is answered with one text block,
\* "Error: " followed by the message of the first failing rule of the ordered list,
\* where rules 2 and 4 take an array for an object: an array input is reported by
\* rule 3 and an array-valued data by rule 5.
C5_FirstFailingRuleReported == ReportsFirstRule(TRUE)

\* C5 (as claimed): the same with rules 2 and 4 rejecting everything that is not a
\* mapping, arrays included.
C5_AsClaimed == ReportsFirstRule(FALSE)

C5_Witness ==
    /\ tpc = "returned"
    /\ ParsedInput(chartConfig).k = "array"
    /\ response = ErrorResponse(3)

\* the data-model invariant of a ChartRequest
IsChartRequest(p) ==
    /\ IsMapping(p)
    /\ TypeOk(p)
    /\ Has(p, "data") /\ IsMapping(p.f.data)
    /\ Has(p.f.data, "datasets")
    /\ p.f.data.f.datasets.k = "array"
    /\ p.f.data.f.datasets.a # <<>>

Accepted == tpc = "rendering" \/ (tpc = "returned" /\ adapterCalls # <<>>)

\* C6: validateChartConfig accepts exactly the inputs that, parsed when text, are
\* objects with one of the eight types, an object data and a non-empty datasets
\* sequence; it returns that (parsed) input unchanged; and a text input has the
\* outcome of the object it parses to.
C6_AcceptsExactlyChartRequests ==
    tpc # "idle" =>
        /\ Accepted <=> (ParsedInput(chartConfig) # NoValue
                            /\ IsChartRequest(ParsedInput(chartConfig)))
        /\ Accepted => /\ parsedChartConfig = ParsedInput(chartConfig)
                       /\ IsChartRequest(parsedChartConfig)
        /\ (chartConfig.k = "string" /\ ParsedInput(chartConfig) # NoValue
                /\ IsMapping(ParsedInput(chartConfig)))
             => /\ validateChartConfig(ParsedInput(chartConfig)).ok = Accepted
                /\ ~Accepted =>
                      response = [content |-> <<TextBlock(<<"Error: ">> \o
                          validateChartConfig(ParsedInput(chartConfig)).message)>>]

C6_Witness ==
    /\ tpc = "rendering"
    /\ chartConfig.k = "string"
    /\ Len(parsedChartConfig.f.data.f.datasets.a) = 2

\* the blocks of the response
Content == response.content

IsBlock(b) == "type" \in DOMAIN b /\ b.type \in {"text", "image"}

HtmlTagged(b) == "mimeType" \in DOMAIN b /\ b.mimeType = "text/html"

\* C7: the handler never faults: every invocation that has come back returned a
\* response made of content blocks, and a validation error or a render failure is
\* carried by a text block.
C7_NeverFaults ==
    /\ tpc # "faulted"
    /\ tpc = "returned" =>
          /\ response # NoValue
          /\ Len(Content) >= 1
          /\ \A i \in DOMAIN Content : IsBlock(Content[i])
          /\ (adapterCalls = <<>> \/ ~result.success) =>
                \A i \in DOMAIN Content : Content[i].type = "text" /\ Content[i].text # <<>>

C7_Witness ==
    /\ tpc = "returned"
    /\ result # NoValue
    /\ ~result.success
    /\ Content[1].type = "text"

\* the index of a character of the base64 alphabet
B64Index(ch) == CHOOSE n \in 0..63 : Base64Alphabet[n + 1] = ch

IsBase64(t) ==
    /\ Len(t) % 4 = 0
    /\ \A i \in DOMAIN t :
          \/ t[i] \in Range(Base64Alphabet)
          \/ t[i] = "=" /\ i > Len(t) - 2 /\ (i = Len(t) \/ t[Len(t)] = "=")

RECURSIVE Base64Decode(_)
Base64Decode(t) ==
    IF t = <<>> THEN <<>>
    ELSE LET a == B64Index(t[1])
             b == B64Index(t[2])
         IN  IF t[3] = "=" THEN <<a * 4 + b \div 16>>
             ELSE LET c == B64Index(t[3])
                  IN  IF t[4] = "=" THEN <<a * 4 + b \div 16, (b % 16) * 16 + c \div 4>>
                      ELSE <<a * 4 + b \div 16, (b % 16) * 16 + c \div 4,
                             (c % 4) * 64 + B64Index(t[4])>>
                               \o Base64Decode(SubSeq(t, 5, Len(t)))

\* C8: the response to a valid configuration is one block decided by the variant of
\* the adapter's result: Html -> text with the markup, tagged text/html; Png bytes ->
\* image, base64 of the bytes, tagged image/png; Png path -> text with the path;
\* Failure -> text with the message followed by the fixed footer naming the eight types.
C8_ShapedByVariant ==
    (tpc = "returned" /\ result # NoValue) =>
        /\ Len(Content) = 1
        /\ LET b == Content[1]
           IN  IF ~result.success
               THEN /\ b.type = "text"
                    /\ DOMAIN b = {"type", "text"}
                    /\ Len(b.text) > Len(result.message)
                    /\ SubSeq(b.text, 1, Len(result.message)) = result.message
                    /\ SubSeq(b.text, Len(result.message) + 1, Len(b.text)) = Footer
                    /\ ChartKinds \subseteq Range(b.text)
               ELSE IF "htmlSnippet" \in DOMAIN result
               THEN /\ b.type = "text"
                    /\ b.text = result.htmlSnippet
                    /\ HtmlTagged(b)
               ELSE IF "buffer" \in DOMAIN result
               THEN /\ b.type = "image"
                    /\ IsBase64(b.data)
                    /\ Base64Decode(b.data) = result.buffer
                    /\ "mimeType" \in DOMAIN b /\ b.mimeType = "image/png"
               ELSE /\ "pngFilePath" \in DOMAIN result
                    /\ b.type = "text"
                    /\ b.text = result.pngFilePath
                    /\ DOMAIN b = {"type", "text"}

C8_Witness ==
    /\ tpc = "returned"
    /\ result # NoValue
    /\ "buffer" \in DOMAIN result
    /\ Len(result.buffer) = 5
    /\ Content[1].type = "image"

HtmlBlocks == {i \in DOMAIN Content : HtmlTagged(Content[i])}
ImageBlocks == {i \in DOMAIN Content : Content[i].type = "image"}

ValidHtmlCall == tpc = "returned" /\ outputFormat = "html" /\ adapterCalls # <<>>

\* C9 (as claimed): for every valid configuration with outputFormat = "html" the
\* result holds exactly one HTML-tagged block and no image block.
C9_AsClaimed ==
    ValidHtmlCall => Cardinality(HtmlBlocks) = 1 /\ ImageBlocks = {}

\* C9 (as amended): for every valid configuration with outputFormat = "html",
\* whatever saveToFile is, the result holds exactly one block and no image block;
\* the block is HTML-tagged and carries the markup when the adapter returned an Html
\* result, and is an untagged text block (message and footer) when it returned Failure.
C9_HtmlResult ==
    ValidHtmlCall =>
        /\ Len(Content) = 1
        /\ ImageBlocks = {}
        /\ Content[1].type = "text"
        /\ IF result.success
           THEN HtmlBlocks = {1} /\ Content[1].text = result.htmlSnippet
           ELSE HtmlBlocks = {} /\ Content[1].text = result.message \o Footer

C9_Witness ==
    /\ ValidHtmlCall
    /\ saveToFile
    /\ result.success
    /\ HtmlBlocks = {1}

\* C10: the validator runs before any rendering work: the adapter is called at most
\* once per invocation, only for an input that passed validation, with the validated
\* (parsed) configuration and the caller's format and saveToFile; never after a
\* validation failure, and no result exists without a call.
C10_ValidateBeforeRender ==
    /\ Len(adapterCalls) <= 1
    /\ result # NoValue => adapterCalls # <<>>
    /\ adapterCalls # <<>> =>
          /\ ParsedInput(chartConfig) # NoValue
          /\ IsChartRequest(ParsedInput(chartConfig))
          /\ adapterCalls[1] = [config |-> ParsedInput(chartConfig),
                                format |-> outputFormat, saveToFile |-> saveToFile]
    /\ (tpc # "idle" /\ FirstFailingRule(chartConfig, TRUE) # 0) =>
          adapterCalls = <<>> /\ result = NoValue

C10_Witness ==
    /\ tpc = "returned"
    /\ Len(adapterCalls) = 1
    /\ chartConfig.k = "string"
    /\ adapterCalls[1].config.k = "object"

(***************************************************************************)
(* Properties of the session registry                                      *)
(***************************************************************************)
\* this step is the arrival of a request; NewReq is that request after the step
Arrived == Len(reqs') = Len(reqs) + 1
NewReq == reqs'[Len(reqs')]

\* this step is the transport's handling of request r
Handled(r) == reqs[r].pc = "handling" /\ reqs'[r].pc = "done"

\* this step is the resumption of request r after server.connect
Resumed(r) == reqs[r].pc = "connecting" /\ reqs'[r].pc = "handling"

NoHeader(q) == ~TruthyId(q.header)

SessionIdsGiven == {tr[t].sessionId : t \in DOMAIN tr} \ {UndefinedId}

\* the step adds to the registry exactly one entry, for a fresh id, mapped to t
AddsSessionFor(t) ==
    LET id == tr'[t].sessionId
    IN  /\ TruthyId(id)
        /\ id \notin MapKeys(transports)
        /\ id \notin SessionIdsGiven
        /\ transports' = Append(transports, [key |-> id, value |-> t])
        /\ Len(transports') = Len(transports) + 1

\* what holds of the arrival and of the resumption of a POST without a session header:
\* one transport is created for it, and the registry is not touched yet
CreatesOneTransport ==
    /\ (Arrived /\ NewReq.method = "POST" /\ NoHeader(NewReq)) =>
          /\ Len(tr') = Len(tr) + 1
          /\ NewReq.httpTransport = Len(tr')
          /\ tr'[Len(tr')] = NewTransport
          /\ \A t \in DOMAIN tr : tr'[t] = tr[t]
          /\ transports' = transports
    /\ \A r \in DOMAIN reqs : Resumed(r) => transports' = transports /\ tr' = tr

\* C1 (as claimed): every POST without a session header, once handled, has added
\* exactly one entry to the registry, for a fresh id, mapped to its own transport.
C1_AsClaimed ==
    [][/\ CreatesOneTransport
       /\ \A r \in DOMAIN reqs :
             (Handled(r) /\ reqs[r].method = "POST" /\ NoHeader(reqs[r]))
                 => AddsSessionFor(reqs[r].httpTransport)]_vars

\* C1 (as amended): a POST without a session header creates one transport; when it
\* carries an initialization request, handling it adds exactly one entry to the
\* registry, for a fresh id, mapped to the transport created for that request, also
\* with several such requests in flight; when it carries anything else the transport
\* answers 400 and the registry is unchanged.
C1_InitializationCreatesOneSession ==
    [][/\ CreatesOneTransport
       /\ \A r \in DOMAIN reqs :
             (Handled(r) /\ reqs[r].method = "POST" /\ NoHeader(reqs[r])) =>
                 IF reqs[r].init
                 THEN AddsSessionFor(reqs[r].httpTransport) /\ reqs'[r].status = 200
                 ELSE transports' = transports /\ reqs'[r].status = 400]_vars

\* two initializations in flight together, the later arrival handled first
C1_Witness ==
    \E r1, r2 \in DOMAIN reqs :
        /\ r1 < r2
        /\ \A r \in {r1, r2} : /\ reqs[r].method = "POST" /\ reqs[r].header = UndefinedId
                               /\ reqs[r].init /\ reqs[r].pc = "done"
        /\ tr[reqs[r1].httpTransport].sessionId > tr[reqs[r2].httpTransport].sessionId
        /\ Len(transports) = 2
        /\ MapGet(transports, tr[reqs[r1].httpTransport].sessionId) = reqs[r1].httpTransport

\* the requests that were resolved to a stored transport
Reusing(q) == TruthyId(q.header) /\ q.httpTransport # NoTransport

\* C2: a request (POST, GET or DELETE) whose session header matches an entry is
\* forwarded to the transport stored under that id: no transport is created and no
\* entry is added on its arrival or by its handling, it is delivered to that transport
\* and to no other, and all requests resolved under one id share one transport.
C2_ReusesStoredTransport ==
    [][/\ (Arrived /\ TruthyId(NewReq.header) /\ MapHas(transports, NewReq.header)) =>
             /\ NewReq.httpTransport = MapGet(transports, NewReq.header)
             /\ NewReq.pc = "handling"
             /\ tr' = tr
             /\ transports' = transports
       /\ \A r \in DOMAIN reqs : (Handled(r) /\ Reusing(reqs[r])) =>
             /\ Len(tr') = Len(tr)
             /\ MapKeys(transports') \subseteq MapKeys(transports)
             /\ r \in tr'[reqs[r].httpTransport].requests
             /\ \A t \in DOMAIN tr :
                   t # reqs[r].httpTransport => tr'[t] = tr[t]
       /\ \A r1, r2 \in DOMAIN reqs' :
             (Reusing(reqs'[r1]) /\ Reusing(reqs'[r2]) /\ reqs'[r1].header = reqs'[r2].header)
                 => reqs'[r1].httpTransport = reqs'[r2].httpTransport]_vars

C2_Witness ==
    \E t \in DOMAIN tr :
        /\ {reqs[r].method : r \in tr[t].requests} = {"POST", "GET", "DELETE"}
        /\ \A r \in tr[t].requests : reqs[r].status = 200
        /\ Len(tr) = 1

\* the answer of the boundary to a request it rejects
Rejected(q) ==
    /\ q.pc = "done"
    /\ q.status = 400
    /\ q.code = -32000
    /\ q.by = "boundary"
    /\ q.httpTransport = NoTransport

\* C3: when the transport of an Active session reports closure its entry leaves the
\* registry; an id that has left the registry never comes back; and a request whose
\* session header is such a stale id is rejected with 400, not forwarded.
C3_ClosureEndsSession ==
    [][/\ \A t \in DOMAIN tr :
             (tr'[t].closes > tr[t].closes /\ t \in MapValues(transports)) =>
                 /\ t \notin MapValues(transports')
                 /\ tr[t].sessionId \notin MapKeys(transports')
       /\ \A id \in SessionIdsGiven :
             id \notin MapKeys(transports) => id \notin MapKeys(transports')
       /\ (Arrived /\ NewReq.header \in SessionIdsGiven
                   /\ NewReq.header \notin MapKeys(transports)) =>
             /\ Rejected(NewReq)
             /\ tr' = tr
             /\ transports' = transports]_vars

C3_Witness ==
    \E r \in DOMAIN reqs, t \in DOMAIN tr :
        /\ TruthyId(tr[t].sessionId)
        /\ reqs[r].header = tr[t].sessionId
        /\ IsClosed(t)
        /\ Rejected(reqs[r])
        /\ \E r0 \in tr[t].requests : reqs[r0].header = tr[t].sessionId /\ reqs[r0].status = 200

\* the arriving request is rejected at the boundary and nothing else changes
RejectedAtBoundary ==
    /\ Rejected(NewReq)
    /\ tr' = tr
    /\ transports' = transports
    /\ serverTransport' = serverTransport
    /\ \A r \in DOMAIN reqs : reqs'[r] = reqs[r]

\* C4 (as claimed): a request with a session header that is not in the registry, and
\* a request other than POST with no session header, is rejected at the boundary.
C4_AsClaimed ==
    [][(Arrived /\ \/ (NewReq.header # UndefinedId /\ ~MapHas(transports, NewReq.header))
                   \/ (NewReq.header = UndefinedId /\ NewReq.method # "POST"))
          => RejectedAtBoundary]_vars

\* C4 (as amended): a request with a non-empty session header that is not in the
\* registry (whatever its method), and a request other than POST with no session
\* header or an empty one, is rejected at the boundary: 400 with code -32000, no
\* transport created, none receives it, registry and other sessions unchanged.  A
\* POST with an empty session header is handled as one with none.
C4_RejectedAtBoundary ==
    [][/\ (Arrived /\ \/ (TruthyId(NewReq.header) /\ ~MapHas(transports, NewReq.header))
                      \/ (~TruthyId(NewReq.header) /\ NewReq.method # "POST"))
             => RejectedAtBoundary
       /\ \A r \in DOMAIN reqs :
             Rejected(reqs[r]) => reqs'[r] = reqs[r] /\ \A t \in DOMAIN tr' : r \notin tr'[t].requests
       /\ (Arrived /\ NewReq.header = EmptyId /\ NewReq.method = "POST")
             => NewReq.pc = "connecting" /\ Len(tr') = Len(tr) + 1]_vars

C4_Witness ==
    \E r1, r2 \in DOMAIN reqs :
        /\ Rejected(reqs[r1]) /\ reqs[r1].header = UnknownId /\ reqs[r1].method = "POST"
        /\ Rejected(reqs[r2]) /\ reqs[r2].header = UndefinedId /\ reqs[r2].method = "GET"
        /\ Len(transports) = 1

(***************************************************************************)
(* Properties of the shutdown (SIGINT handler, lines 247-255)              *)
(***************************************************************************)
\* the process has closed its listening socket and left with status 0 (lines 253-254)
ExitedWithStatus0 == proc = "exited"

\* SIGINT was delivered: the handler is in its loop, or the process is gone
SigintDelivered == proc # "running"

\* no transport of the registry is still open
RegisteredAllClosed == \A t \in MapValues(transports) : IsClosed(t)

\* C11 (as claimed): on SIGINT the registered transports are closed, then the socket
\* is closed and the process exits with status 0: the process does not exit while a
\* registered transport is open, and once SIGINT is delivered the handler is on its
\* way to the exit with status 0 or has reached it, whatever the closes give; it
\* never ends in another way.
C11_AsClaimed ==
    /\ ExitedWithStatus0 => RegisteredAllClosed
    /\ SigintDelivered => proc \in {"closing", "exited"}

\* the part of C11 that the handler keeps: no exit with status 0 while a registered
\* transport is open, also with sessions registered while the loop is suspended
C11_NoExitBeforeRegisteredClosed == ExitedWithStatus0 => RegisteredAllClosed

\* the transports the server has created and that have not reported closure
OpenTransports == {t \in DOMAIN tr : ~IsClosed(t)}

\* C12 (as claimed): at the shutdown signal every open transport is closed before the
\* socket is closed and the process exits: when the process has exited, no transport
\* the server created is still open, those that never got into the registry included.
C12_AsClaimed == ExitedWithStatus0 => OpenTransports = {}

(***************************************************************************)
(* Properties of the interleaving of the handlers                          *)
(***************************************************************************)
\* request r is a POST without a session header carrying an initialization request,
\* past the lookup of lines 190-193 and before the insertion of line 199
BetweenLookupAndInsertion(r) ==
    /\ reqs[r].method = "POST"
    /\ NoHeader(reqs[r])
    /\ reqs[r].init
    /\ reqs[r].pc \in {"connecting", "handling"}

\* this step belongs to the handler of request r
StepOf(r) == Resumed(r) \/ Handled(r)

\* C13 (as claimed): while the handler of a header-less POST is between its registry
\* lookup and the insertion of the new entry, every step taken is a step of that
\* handler: no other request handler, close callback or shutdown handler runs.  (The
\* insertion of line 199 is unconditional, so the registry is never checked again.)
C13_AsClaimed ==
    [][\A r \in DOMAIN reqs : BetweenLookupAndInsertion(r) => StepOf(r)]_vars

\* the transports of the Active sessions
ActiveTransports == MapValues(transports)

\* this step is a step of a request handler
RequestStep == Arrived \/ \E r \in DOMAIN reqs : StepOf(r)

\* the step adds registry entries only in onsessioninitialized (the handling of an
\* initialization request, for the id its transport is given) and removes them only
\* in onclose (the closure of the transport that has the id)
OnlyCallbacksChangeRegistry ==
    /\ \A id \in MapKeys(transports') \ MapKeys(transports) :
          \E r \in DOMAIN reqs :
              /\ Handled(r) /\ reqs[r].init
              /\ tr'[reqs[r].httpTransport].sessionId = id
              /\ MapGet(transports', id) = reqs[r].httpTransport
    /\ \A id \in MapKeys(transports) \ MapKeys(transports') :
          \E t \in DOMAIN tr : tr'[t].closes > tr[t].closes /\ tr[t].sessionId = id

\* C14 (as claimed): the registry is the only state the request handlers share: its
\* entries are added only by the session-initialized callback and removed only by the
\* close callback, and a step of a request handler, the creation of a new session and
\* its binding to the shared tool endpoint included, leaves alone what an Active
\* session depends on: the endpoint stays bound to the Active session's transport.
C14_AsClaimed ==
    [][/\ OnlyCallbacksChangeRegistry
       /\ (RequestStep /\ serverTransport \in ActiveTransports)
             => serverTransport' = serverTransport]_vars

\* the part of C14 that the code keeps: only the two callbacks change the registry
C14_OnlyCallbacksChangeRegistry == [][OnlyCallbacksChangeRegistry]_vars

(***************************************************************************)
(* Invariants of the registry                                              *)
(***************************************************************************)
\* C15: in every reachable state the registry is well-formed: each key is the session
\* id of the transport stored under it, a key occurs once, and no transport is stored
\* under two ids (two different ids never map to one transport), after any
\* interleaving of header-less POSTs, continuing requests and closures.
C15_RegistryWellFormed ==
    /\ \A i \in DOMAIN transports :
          /\ transports[i].value \in DOMAIN tr
          /\ TruthyId(transports[i].key)
          /\ tr[transports[i].value].sessionId = transports[i].key
    /\ \A i, j \in DOMAIN transports :
          (transports[i].key = transports[j].key \/ transports[i].value = transports[j].value)
              => i = j

\* two sessions are registered, and a second initialization request sent to the
\* transport of one of them (the request that could store it under a second id) was
\* refused
C15_Witness ==
    /\ Len(transports) = 2
    /\ \E r \in DOMAIN reqs :
          /\ reqs[r].init /\ Reusing(reqs[r]) /\ reqs[r].pc = "done"
          /\ reqs[r].status = 400
          /\ reqs[r].httpTransport \in MapValues(transports)

\* C16 (as claimed): in every reachable state every transport in the registry is
\* open: a transport that has reported closure is not found in the registry, also
\* when it reported the closure before its session id was assigned and was
\* registered afterwards.
C16_AsClaimed == \A i \in DOMAIN transports : ~IsClosed(transports[i].value)

====
